---- MODULE Spec2Model ----
(***************************************************************************)
(* privateGPT: a model of the two scripts of the repository.               *)
(*                                                                         *)
(*   ingest.py      walks the source directory, loads every file through   *)
(*                  the loader registered for its extension (in a worker   *)
(*                  pool), splits, embeds, adds to the vector store and    *)
(*                  persists.                                              *)
(*   privateGPT.py  opens the store, selects a language-model backend by   *)
(*                  MODEL_TYPE, builds the retrieval chain and runs the    *)
(*                  interactive query loop.                                *)
(*                                                                         *)
(* Python strings whose characters matter (file paths, extensions, the     *)
(* lines typed at the prompt, TARGET_SOURCE_CHUNKS) are sequences of       *)
(* one-character strings, so that rsplit, glob matching and == "exit" are  *)
(* computed and not assumed; the values of the environment variables that  *)
(* int() parses are sequences of Unicode code points, because int() tells  *)
(* characters apart that have no ASCII form.  The third-party collaborators*)
(* (loaders, splitter, embeddings, Chroma, the LLM classes, RetrievalQA)   *)
(* are black boxes: what they return is chosen nondeterministically.       *)
(***************************************************************************)
EXTENDS Integers, Sequences, FiniteSets, TLC

VARIABLES
    \* ---- ingest.py
    fs,            \* the files under the source directory (paths)
    cpu_count,     \* what os.cpu_count() reports: NoneInt or Some(n)
    pcI,           \* where ingest.main is
    all_files,     \* load_documents: the list the globs built
    processes,     \* the argument given to multiprocessing.Pool
    taskNext,      \* index in all_files of the next task the pool hands out
    running,       \* the tasks the workers hold: [task, at, item]
    outq,          \* outcomes of finished tasks, in completion order
    results,       \* load_documents: results
    pbar,          \* the tqdm counter (pbar.n)
    loadCount,     \* path -> number of times load_single_document ran on it
    dispatched,    \* loader instantiations: <<path, class, args>>
    produced,      \* every Document a loader's load() returned
    raised,        \* the paths on which load_single_document raised
    texts,         \* main: the chunks split_documents returned
    store,         \* the chunks added to the vector store
    addCalls,      \* number of Chroma.from_documents calls
    persistCalls,  \* number of db.persist() calls
    errorI,        \* the exception that ended the run, or "none"
    \* ---- privateGPT.py
    env_model_type,  \* MODEL_TYPE in the environment (None when unset)
    env_tsc,         \* TARGET_SOURCE_CHUNKS in the environment: [set, value]
    env_ngl,         \* N_GPU_LAYERS in the environment: [set, value]
    prompt_to,       \* the stream input() writes its prompt to
    argv,            \* the command-line words (sys.argv[1:])
    args,            \* parse_arguments(): [hide_source, mute_stream]
    pcQ,             \* where privateGPT is
    target_source_chunks,
    n_gpu_layers,
    retriever,       \* None or [k |-> ...]
    callbacks,       \* the callbacks list of main: a set of handler names
    llm,             \* [kind, backend, callbacks]; kind: unassigned, None, llm
    constructed,     \* the backends constructed so far, in order
    qa,              \* None or [llm, retriever, return_source_documents]
    inputs,          \* the lines entered at the prompt, in order
    calls,           \* the calls made to the chain:
                     \* [query, n, llm, k, returned, nret]
    out,             \* what was written to stdout, in order
    err,             \* what was written to stderr, in order
    errorQ           \* the exception that ended the run, or "none"

ivars == <<fs, cpu_count, pcI, all_files, processes, taskNext, running, outq,
           results, pbar, loadCount, dispatched, produced, raised, texts,
           store, addCalls, persistCalls, errorI>>
qvars == <<env_model_type, env_tsc, env_ngl, prompt_to, argv, args, pcQ,
           target_source_chunks, n_gpu_layers, retriever, callbacks, llm,
           constructed, qa, inputs, calls, out, err, errorQ>>
vars == <<ivars, qvars>>

None == "None"

(***************************************************************************)
(* Bounds of the model.                                                    *)
(***************************************************************************)
MaxFiles == 2         \* files under the source directory
MaxCpu == 3           \* largest CPU count reported
MaxDocsPerFile == 2   \* documents one loader.load() returns
MaxChunks == 2        \* chunks the splitter makes of one document
MaxQueries == 2       \* lines entered at the prompt
MaxRetrieved == 2     \* source documents the chain returns for a query

(***************************************************************************)
(* String helpers (Python str methods used by the scripts).                *)
(***************************************************************************)
\* s.endswith(t)
EndsWith(s, t) ==
    /\ Len(s) >= Len(t)
    /\ SubSeq(s, Len(s) - Len(t) + 1, Len(s)) = t

\* the positions of character c in s
Positions(s, c) == {i \in 1..Len(s) : s[i] = c}

SetMax(S) == CHOOSE x \in S : \A y \in S : y <= x
SetMin(S) == CHOOSE x \in S : \A y \in S : x <= y

\* s.rsplit(c, 1)[-1]: the text after the last c, the whole of s without one
RSplitLast(s, c) ==
    IF Positions(s, c) = {} THEN s
    ELSE SubSeq(s, SetMax(Positions(s, c)) + 1, Len(s))

\* os.path.basename
Basename(p) == RSplitLast(p, "/")

(***************************************************************************)
(* ingest.py: LOADER_MAPPING.  A dict keeps insertion order, which is the  *)
(* order load_documents globs in.                                          *)
(***************************************************************************)
NoArgs == {}
Utf8Args == {<<"encoding", "utf8">>}

LOADER_ITEMS ==
    << << <<".", "c", "s", "v">>,      "CSVLoader",                      NoArgs >>,
       << <<".", "d", "o", "c">>,      "UnstructuredWordDocumentLoader", NoArgs >>,
       << <<".", "d", "o", "c", "x">>, "UnstructuredWordDocumentLoader", NoArgs >>,
       << <<".", "e", "n", "e", "x">>, "EverNoteLoader",                 NoArgs >>,
       << <<".", "e", "m", "l">>,      "UnstructuredEmailLoader",        NoArgs >>,
       << <<".", "e", "p", "u", "b">>, "UnstructuredEPubLoader",         NoArgs >>,
       << <<".", "h", "t", "m", "l">>, "UnstructuredHTMLLoader",         NoArgs >>,
       << <<".", "m", "d">>,           "UnstructuredMarkdownLoader",     NoArgs >>,
       << <<".", "o", "d", "t">>,      "UnstructuredODTLoader",          NoArgs >>,
       << <<".", "p", "d", "f">>,      "PDFMinerLoader",                 NoArgs >>,
       << <<".", "p", "p", "t">>,      "UnstructuredPowerPointLoader",   NoArgs >>,
       << <<".", "p", "p", "t", "x">>, "UnstructuredPowerPointLoader",   NoArgs >>,
       << <<".", "t", "x", "t">>,      "TextLoader",                     Utf8Args >> >>

\* the keys of LOADER_MAPPING
LoaderExts == {LOADER_ITEMS[i][1] : i \in 1..Len(LOADER_ITEMS)}

\* LOADER_MAPPING[ext] = (loader_class, loader_args)
LOADER_MAPPING(ext) ==
    LET i == CHOOSE j \in 1..Len(LOADER_ITEMS) : LOADER_ITEMS[j][1] = ext
    IN  <<LOADER_ITEMS[i][2], LOADER_ITEMS[i][3]>>

(***************************************************************************)
(* The source directory and the paths the model places under it.           *)
(***************************************************************************)
source_dir == <<"s">>
Under(rel) == source_dir \o <<"/">> \o rel

PathUniverse ==
    { Under(<<"a", ".", "c", "s", "v">>),
      Under(<<"a", ".", "d", "o", "c", "x">>),
      Under(<<"a", ".", "t", "x", "t">>),
      Under(<<"d", ".", "v", "/", "a", ".", "b", ".", "t", "x", "t">>),
      Under(<<"a", ".", "t", "x", "t", ".", "g", "z">>),
      Under(<<"R", "E", "A", "D">>),
      Under(<<"a", ".", "T", "X", "T">>),
      Under(<<".", "h", "/", "a", ".", "t", "x", "t">>),
      Under(<<".", "t", "x", "t">>),
      Under(<<"d", ".", "t", "x", "t", "/", "f">>) }

(***************************************************************************)
(* ingest.py: load_single_document.                                        *)
(***************************************************************************)
\* line 54: ext = "." + file_path.rsplit(".", 1)[-1]
ExtOf_first(file_path) ==
    IF Positions(file_path, ".") = {} THEN <<".">> \o file_path
    ELSE <<".">> \o SubSeq(file_path, SetMin(Positions(file_path, ".")) + 1,
                           Len(file_path))

ExtOf(file_path) == <<".">> \o RSplitLast(file_path, ".")

\* a Document: the file it came from and its position in loader.load()
Doc(path, i) == [source |-> path, idx |-> i]

\* what loader.load() can do: raise, or return a list of documents: none,
\* one, or as many as MaxDocsPerFile
LoadOutcomes ==
    {[raises |-> TRUE, n |-> 0]}
        \cup {[raises |-> FALSE, n |-> k] : k \in {0, 1, MaxDocsPerFile}}

\* a loader given a directory cannot read it: load() raises
LoadOutcomesOf(path, isdir) ==
    IF isdir THEN {[raises |-> TRUE, n |-> 0]} ELSE LoadOutcomes

NoDoc == [source |-> <<>>, idx |-> 0]
NoLoader == <<"", {}>>

\* lines 54-57: the loader class and arguments registered for the extension
\* of file_path, NoLoader when the extension is not a key of LOADER_MAPPING
LoaderOf(file_path) ==
    LET ext == ExtOf(file_path) IN
    IF ext \in LoaderExts THEN LOADER_MAPPING(ext) ELSE NoLoader

\* load_single_document(file_path), given what loader.load() does (loaded)
load_single_document(file_path, loaded) ==
    LET lm == LoaderOf(file_path) IN
    IF lm # NoLoader
    THEN IF loaded.raises
         THEN [kind |-> "LoaderError", loader |-> lm, docs |-> {}, doc |-> NoDoc]
         ELSE IF loaded.n = 0
         THEN [kind |-> "IndexError", loader |-> lm, docs |-> {}, doc |-> NoDoc]
         ELSE [kind |-> "ok", loader |-> lm,
               docs |-> {Doc(file_path, i) : i \in 1..loaded.n},
               doc |-> Doc(file_path, 1)]
    ELSE [kind |-> "ValueError", loader |-> NoLoader, docs |-> {}, doc |-> NoDoc]

(***************************************************************************)
(* ingest.py: load_documents, the glob of lines 65-69.                     *)
(***************************************************************************)
\* the part of a path below source_dir
RelPath(p) == SubSeq(p, Len(source_dir) + 2, Len(p))

\* glob skips names that start with "." (files and directories it walks)
Hidden(rel) ==
    \/ rel[1] = "."
    \/ \E i \in 1..(Len(rel) - 1) : rel[i] = "/" /\ rel[i + 1] = "."

\* p matches os.path.join(source_dir, "**/*" + ext) with recursive=True
GlobMatch_contains(p, ext) ==
    /\ ~Hidden(RelPath(p))
    /\ \E i \in 1..Len(Basename(p)) :
          /\ i + Len(ext) - 1 <= Len(Basename(p))
          /\ SubSeq(Basename(p), i, i + Len(ext) - 1) = ext

GlobMatch(p, ext) ==
    /\ ~Hidden(RelPath(p))
    /\ EndsWith(Basename(p), ext)

\* the directories below source_dir that hold the files
DirsOf(p) ==
    {SubSeq(p, 1, i - 1) : i \in {j \in 1..Len(p) :
                                  p[j] = "/" /\ j > Len(source_dir) + 1}}

Dirs(files) == UNION {DirsOf(p) : p \in files}

\* everything glob walks below source_dir: it does not tell a file from a
\* directory, so a directory whose name matches the pattern is listed too
Entries(files) == files \cup Dirs(files)

\* the orders a directory listing can give a set of paths
Perms(S) ==
    {s \in [1..Cardinality(S) -> S] : \A i, j \in 1..Cardinality(S) :
                                          i # j => s[i] # s[j]}

\* all_files: for each ext of LOADER_MAPPING in order, extended by that glob
RECURSIVE GlobAll(_, _)
GlobAll(files, i) ==
    IF i > Len(LOADER_ITEMS) THEN {<<>>}
    ELSE {b \o rest :
            b \in Perms({p \in Entries(files) : GlobMatch(p, LOADER_ITEMS[i][1])}),
            rest \in GlobAll(files, i + 1)}

Range(s) == {s[i] : i \in 1..Len(s)}


\* subsets of S with at most n elements
SubsetsUpTo(S, n) == {T \in SUBSET S : Cardinality(T) <= n}

\* os.cpu_count() returns None when the count cannot be determined
NoneInt == <<>>
Some(n) == <<n>>
CpuCounts == {NoneInt} \cup {Some(n) : n \in 1..MaxCpu}

(***************************************************************************)
(* ingest.py: the state before main() runs.                                *)
(***************************************************************************)
IngestStart ==
    /\ fs \in SubsetsUpTo(PathUniverse, MaxFiles)
    /\ cpu_count \in CpuCounts
    /\ pcI = "start"
    /\ all_files = <<>>
    /\ processes = NoneInt
    /\ taskNext = 1
    /\ running = {}
    /\ outq = <<>>
    /\ results = <<>>
    /\ pbar = 0
    /\ loadCount = [p \in Entries(fs) |-> 0]
    /\ dispatched = {}
    /\ produced = {}
    /\ raised = {}
    /\ texts = <<>>
    /\ store = {}
    /\ addCalls = 0
    /\ persistCalls = 0
    /\ errorI = "none"

\* the ingest script is not run
IngestOff ==
    /\ fs = {}
    /\ cpu_count = NoneInt
    /\ pcI = "off"
    /\ all_files = <<>>
    /\ processes = NoneInt
    /\ taskNext = 1
    /\ running = {}
    /\ outq = <<>>
    /\ results = <<>>
    /\ pbar = 0
    /\ loadCount = <<>>
    /\ dispatched = {}
    /\ produced = {}
    /\ raised = {}
    /\ texts = <<>>
    /\ store = {}
    /\ addCalls = 0
    /\ persistCalls = 0
    /\ errorI = "none"

(***************************************************************************)
(* ingest.py: load_documents.                                              *)
(***************************************************************************)
\* lines 65-69: all_files is built by one glob per key of LOADER_MAPPING
Glob ==
    /\ pcI = "start"
    /\ all_files' \in GlobAll(fs, 1)
    /\ pcI' = "pool"
    /\ UNCHANGED <<fs, cpu_count, processes, taskNext, running, outq, results,
                   pbar, loadCount, dispatched, produced, raised, texts, store,
                   addCalls, persistCalls, errorI>>
    /\ UNCHANGED qvars

\* line 70: the number of worker processes asked of multiprocessing.Pool
PoolProcesses(n) == n - 1

\* line 70: multiprocessing.Pool(processes=os.cpu_count() - 1).
\* None - 1 is a TypeError; Pool raises ValueError("Number of processes must
\* be at least 1") for processes < 1.
CreatePool ==
    /\ pcI = "pool"
    /\ IF cpu_count = NoneInt
       THEN /\ pcI' = "failed"
            /\ errorI' = "TypeError"
            /\ UNCHANGED processes
       ELSE /\ processes' = Some(PoolProcesses(cpu_count[1]))
            /\ IF PoolProcesses(cpu_count[1]) < 1
               THEN pcI' = "failed" /\ errorI' = "ValueError: Number of processes must be at least 1"
               ELSE pcI' = "imap" /\ UNCHANGED errorI
    /\ UNCHANGED <<fs, cpu_count, all_files, taskNext, running, outq, results,
                   pbar, loadCount, dispatched, produced, raised, texts, store,
                   addCalls, persistCalls>>
    /\ UNCHANGED qvars

\* a task a worker holds: where the worker is in load_single_document
\* ("enter": line 54 not yet run; "load": the loader is instantiated, line
\* 58 not yet run; "send": the outcome is not yet on the result queue) and,
\* at "send", the outcome
NoItem == [task |-> 0, kind |-> "none", doc |-> NoDoc]
Held(t, at, item) == [task |-> t, at |-> at, item |-> item]

\* the pool is alive: from its creation until the with block of line 70 is
\* left, which terminates it
PoolAlive == pcI \in {"imap", "unwinding"}

\* line 74: the pool hands the next element of all_files to an idle worker
WorkerTake ==
    /\ PoolAlive
    /\ taskNext <= Len(all_files)
    /\ Cardinality(running) < processes[1]
    /\ running' = running \cup {Held(taskNext, "enter", NoItem)}
    /\ taskNext' = taskNext + 1
    /\ UNCHANGED <<fs, cpu_count, pcI, all_files, processes, outq, results,
                   pbar, loadCount, dispatched, produced, raised, texts, store,
                   addCalls, persistCalls, errorI>>
    /\ UNCHANGED qvars

\* lines 54-57 and 60, in a worker: the loader registered for the extension
\* is instantiated, or ValueError is raised
WorkerInstantiate(w) ==
    /\ PoolAlive
    /\ w \in running
    /\ w.at = "enter"
    /\ LET path == all_files[w.task]
           lm == LoaderOf(path)
       IN  /\ loadCount' = [loadCount EXCEPT ![path] = @ + 1]
           /\ IF lm # NoLoader
              THEN /\ dispatched' = dispatched \cup {<<path, lm[1], lm[2]>>}
                   /\ running' = (running \ {w})
                                     \cup {Held(w.task, "load", NoItem)}
                   /\ UNCHANGED raised
              ELSE /\ raised' = raised \cup {path}
                   /\ running' = (running \ {w})
                                     \cup {Held(w.task, "send",
                                                [task |-> w.task,
                                                 kind |-> "ValueError",
                                                 doc |-> NoDoc])}
                   /\ UNCHANGED dispatched
    /\ UNCHANGED <<fs, cpu_count, pcI, all_files, processes, taskNext, outq,
                   results, pbar, produced, texts, store, addCalls,
                   persistCalls, errorI>>
    /\ UNCHANGED qvars

\* line 58, in a worker: loader.load()[0]
WorkerLoad(w, loaded) ==
    /\ PoolAlive
    /\ w \in running
    /\ w.at = "load"
    /\ loaded \in LoadOutcomesOf(all_files[w.task], all_files[w.task] \in Dirs(fs))
    /\ LET path == all_files[w.task]
           r == load_single_document(path, loaded)
       IN  /\ produced' = produced \cup r.docs
           /\ raised' = IF r.kind = "ok" THEN raised ELSE raised \cup {path}
           /\ running' = (running \ {w})
                             \cup {Held(w.task, "send",
                                        [task |-> w.task, kind |-> r.kind,
                                         doc |-> r.doc])}
    /\ UNCHANGED <<fs, cpu_count, pcI, all_files, processes, taskNext, outq,
                   results, pbar, loadCount, dispatched, texts, store,
                   addCalls, persistCalls, errorI>>
    /\ UNCHANGED qvars

\* the worker puts the Document, or the exception, on the result queue
WorkerSend(w) ==
    /\ PoolAlive
    /\ w \in running
    /\ w.at = "send"
    /\ outq' = Append(outq, w.item)
    /\ running' = running \ {w}
    /\ UNCHANGED <<fs, cpu_count, pcI, all_files, processes, taskNext, results,
                   pbar, loadCount, dispatched, produced, raised, texts, store,
                   addCalls, persistCalls, errorI>>
    /\ UNCHANGED qvars

\* the iterator of imap_unordered raises, in the parent, the exception a task
\* raised in its worker
IterRaises_swallow(item) == FALSE

IterRaises(item) == item.kind # "ok"

\* lines 73-77: the parent takes the next finished task; an exception starts
\* to leave load_documents, the workers still running
ParentNext ==
    /\ pcI = "imap"
    /\ outq # <<>>
    /\ LET item == Head(outq) IN
       IF IterRaises(item)
       THEN /\ pcI' = "unwinding"
            /\ errorI' = item.kind
            /\ UNCHANGED <<results, pbar>>
       ELSE /\ results' = IF item.kind = "ok" THEN Append(results, item.doc)
                          ELSE results
            /\ pbar' = pbar + 1
            /\ UNCHANGED <<pcI, errorI>>
    /\ outq' = Tail(outq)
    /\ UNCHANGED <<fs, cpu_count, all_files, processes, taskNext, running,
                   loadCount, dispatched, produced, raised, texts, store,
                   addCalls, persistCalls>>
    /\ UNCHANGED qvars

\* line 70: the exception leaves the with block, whose exit terminates the
\* pool: every worker is killed where it is
PoolTerminate ==
    /\ pcI = "unwinding"
    /\ pcI' = "failed"
    /\ UNCHANGED <<fs, cpu_count, all_files, processes, taskNext, running,
                   outq, results, pbar, loadCount, dispatched, produced,
                   raised, texts, store, addCalls, persistCalls, errorI>>
    /\ UNCHANGED qvars

\* line 79: every task was yielded; return results
LoadDocumentsReturn ==
    /\ pcI = "imap"
    /\ taskNext > Len(all_files)
    /\ running = {}
    /\ outq = <<>>
    /\ pcI' = "loaded"
    /\ UNCHANGED <<fs, cpu_count, all_files, processes, taskNext, running, outq,
                   results, pbar, loadCount, dispatched, produced, raised, texts, store,
                   addCalls, persistCalls, errorI>>
    /\ UNCHANGED qvars

(***************************************************************************)
(* ingest.py: main, after load_documents.                                  *)
(***************************************************************************)
Chunk(doc, part) == [doc |-> doc, part |-> part]

\* split_documents: the chunks of each document, in the order of documents;
\* n[d] is the number of chunks the splitter makes of document d
RECURSIVE SplitDocuments(_, _)
SplitDocuments(documents, n) ==
    IF documents = <<>> THEN <<>>
    ELSE [part \in 1..n[Head(documents)] |-> Chunk(Head(documents), part)]
         \o SplitDocuments(Tail(documents), n)

\* lines 93-96
Split ==
    /\ pcI = "loaded"
    /\ \E n \in [Range(results) -> 0..MaxChunks] :
          texts' = SplitDocuments(results, n)
    /\ pcI' = "split"
    /\ UNCHANGED <<fs, cpu_count, all_files, processes, taskNext, running, outq,
                   results, pbar, loadCount, dispatched, produced, raised, store,
                   addCalls, persistCalls, errorI>>
    /\ UNCHANGED qvars

\* line 101
CreateEmbeddings ==
    /\ pcI = "split"
    /\ pcI' = "embedded"
    /\ UNCHANGED <<fs, cpu_count, all_files, processes, taskNext, running, outq,
                   results, pbar, loadCount, dispatched, produced, raised, texts, store,
                   addCalls, persistCalls, errorI>>
    /\ UNCHANGED qvars

\* lines 105-110: Chroma.from_documents(texts, embeddings, ...)
FromDocuments ==
    /\ pcI = "embedded"
    /\ store' = store \cup Range(texts)
    /\ addCalls' = addCalls + 1
    /\ pcI' = "added"
    /\ UNCHANGED <<fs, cpu_count, all_files, processes, taskNext, running, outq,
                   results, pbar, loadCount, dispatched, produced, raised, texts,
                   persistCalls, errorI>>
    /\ UNCHANGED qvars

\* lines 111-112: db.persist()
Persist ==
    /\ pcI = "added"
    /\ persistCalls' = persistCalls + 1
    /\ pcI' = "done"
    /\ UNCHANGED <<fs, cpu_count, all_files, processes, taskNext, running, outq,
                   results, pbar, loadCount, dispatched, produced, raised, texts, store,
                   addCalls, errorI>>
    /\ UNCHANGED qvars


IngestNext ==
    \/ Glob
    \/ CreatePool
    \/ WorkerTake
    \/ \E w \in running : WorkerInstantiate(w)
    \/ \E w \in running, loaded \in LoadOutcomes : WorkerLoad(w, loaded)
    \/ \E w \in running : WorkerSend(w)
    \/ ParentNext
    \/ PoolTerminate
    \/ LoadDocumentsReturn
    \/ Split
    \/ CreateEmbeddings
    \/ FromDocuments
    \/ Persist


(***************************************************************************)
(* privateGPT.py: module level (lines 18-27) and parse_arguments.          *)
(***************************************************************************)
\* The characters of a str given to int() are Unicode code points.
\*
\* the code points of the digit zero of every decimal-digit block of
\* Unicode (category Nd): the ten digits of a block are z .. z + 9
DecimalZeros ==
    {48, 1632, 1776, 1984, 2406, 2534, 2662, 2790, 2918, 3046, 3174, 3302,
     3430, 3558, 3664, 3792, 3872, 4160, 4240, 6112, 6160, 6470, 6608, 6784,
     6800, 6992, 7088, 7232, 7248, 42528, 43216, 43264, 43472, 43504, 43600,
     44016, 65296, 66720, 68912, 69734, 69872, 69942, 70096, 70384, 70736,
     70864, 71248, 71360, 71472, 71904, 72016, 72784, 73040, 73120, 92768,
     92864, 93008, 120782, 120792, 120802, 120812, 120822, 123200, 123632,
     125264, 130032}

\* int() reads any Unicode decimal digit as its decimal value
IsDigit(c) == \E z \in DecimalZeros : c \in z..(z + 9)
DigitVal(c) == c - (CHOOSE z \in DecimalZeros : c \in z..(z + 9))

RECURSIVE DigitsVal(_)
DigitsVal(s) ==
    IF s = <<>> THEN 0
    ELSE 10 * DigitsVal(SubSeq(s, 1, Len(s) - 1)) + DigitVal(s[Len(s)])

\* a digit string without its leading zeros, which do not change the value
Significant(s) ==
    IF \A i \in 1..Len(s) : DigitVal(s[i]) = 0 THEN <<>>
    ELSE SubSeq(s, SetMin({i \in 1..Len(s) : DigitVal(s[i]) # 0}), Len(s))

\* the whitespace int() ignores on both sides: tab, line feed, vertical
\* tab, form feed, carriage return and space, and the whitespace outside
\* ASCII (U+0085, U+00A0, U+1680, U+2000-200A, U+2028, U+2029, U+202F,
\* U+205F, U+3000); U+001C-001F are whitespace for str.isspace but not here
IsSpace(c) ==
    c \in (9..13) \cup {32, 133, 160, 5760} \cup (8192..8202)
              \cup {8232, 8233, 8239, 8287, 12288}

RECURSIVE LStrip(_)
LStrip(s) == IF s # <<>> /\ IsSpace(s[1]) THEN LStrip(Tail(s)) ELSE s

RECURSIVE RStrip(_)
RStrip(s) ==
    IF s # <<>> /\ IsSpace(s[Len(s)]) THEN RStrip(SubSeq(s, 1, Len(s) - 1))
    ELSE s

\* "_" (95), "+" (43) and "-" (45)
IsUnderscore(c) == c = 95
IsSign(c) == c \in {43, 45}

\* the digits of an int literal: decimal digits, single underscores allowed
\* between two digits only
IsDigitString(b) ==
    /\ b # <<>>
    /\ \A i \in 1..Len(b) : IsDigit(b[i]) \/ IsUnderscore(b[i])
    /\ ~IsUnderscore(b[1])
    /\ ~IsUnderscore(b[Len(b)])
    /\ \A i \in 1..(Len(b) - 1) : ~(IsUnderscore(b[i]) /\ IsUnderscore(b[i + 1]))

\* sys.get_int_max_str_digits(), as the interpreter starts: int() refuses
\* a str with more digits
IntMaxStrDigits == 4300

\* int(s) of a str (base 10): surrounding whitespace is stripped, then an
\* optional sign and the digits; anything else, and more digits than
\* IntMaxStrDigits, is a ValueError
PyInt(s) ==
    LET t == RStrip(LStrip(s))
        signed == t # <<>> /\ IsSign(t[1])
        body == IF signed THEN Tail(t) ELSE t
        digits == SelectSeq(body, IsDigit)
        magnitude == DigitsVal(Significant(digits))
    IN  IF IsDigitString(body) /\ Len(digits) <= IntMaxStrDigits
        THEN [ok |-> TRUE,
              value |-> IF signed /\ t[1] = 45 THEN 0 - magnitude
                        ELSE magnitude]
        ELSE [ok |-> FALSE, value |-> 0]

Unset == [set |-> FALSE, value |-> <<>>]
EnvStr(v) == [set |-> TRUE, value |-> v]

\* line 26: the default of os.environ.get("TARGET_SOURCE_CHUNKS", 4)
DefaultTargetSourceChunks == 4

\* line 26: int(os.environ.get("TARGET_SOURCE_CHUNKS", 4))
TargetSourceChunks(e) ==
    IF e.set THEN PyInt(e.value)
    ELSE [ok |-> TRUE, value |-> DefaultTargetSourceChunks]

\* line 27: the default of os.environ.get("N_GPU_LAYERS", 0)
DefaultNGpuLayers == 0

\* line 27: int(os.environ.get("N_GPU_LAYERS", 0))
NGpuLayers(e) ==
    IF e.set THEN PyInt(e.value)
    ELSE [ok |-> TRUE, value |-> DefaultNGpuLayers]

(***************************************************************************)
(* privateGPT.py: parse_arguments, lines 131-150.  argparse with the two   *)
(* store_true flags, the -h/--help it adds itself, and its defaults        *)
(* (allow_abbrev, exit_on_error).  argv is the list of command-line words. *)
(***************************************************************************)
OPT_HIDE_SOURCE == <<"-", "-", "h", "i", "d", "e", "-", "s", "o", "u", "r", "c", "e">>
OPT_MUTE_STREAM == <<"-", "-", "m", "u", "t", "e", "-", "s", "t", "r", "e", "a", "m">>
OPT_HELP == <<"-", "-", "h", "e", "l", "p">>

\* the long option strings and the destination of each
LongOptions == {OPT_HIDE_SOURCE, OPT_MUTE_STREAM, OPT_HELP}
DestOfLong(o) ==
    IF o = OPT_HIDE_SOURCE THEN "hide_source"
    ELSE IF o = OPT_MUTE_STREAM THEN "mute_stream"
    ELSE "help"

\* the short option letters and the destination of each
ShortLetters == {"S", "M", "h"}
DestOfShort(c) ==
    IF c = "S" THEN "hide_source"
    ELSE IF c = "M" THEN "mute_stream"
    ELSE "help"

IsPrefix(a, b) == Len(a) <= Len(b) /\ SubSeq(b, 1, Len(a)) = a

\* the part of a word before its first "=", the whole word without one
BeforeEquals(w) ==
    IF Positions(w, "=") = {} THEN w
    ELSE SubSeq(w, 1, SetMin(Positions(w, "=")) - 1)

IsLong(w) == Len(w) >= 2 /\ w[1] = "-" /\ w[2] = "-" /\ w # <<"-", "-">>
IsShort(w) == Len(w) >= 2 /\ w[1] = "-" /\ w[2] # "-"

\* the long options a word abbreviates (the word itself when it is one)
LongCandidates(w) ==
    IF w \in LongOptions THEN {w}
    ELSE IF BeforeEquals(w) \in LongOptions THEN {BeforeEquals(w)}
    ELSE {o \in LongOptions : IsPrefix(BeforeEquals(w), o)}

\* the letters a short word groups after its first: "-SM" gives "M", and so
\* does "-S=M"
GroupRest(w) ==
    IF Len(w) >= 3 /\ w[3] = "=" THEN SubSeq(w, 4, Len(w))
    ELSE SubSeq(w, 3, Len(w))

\* what one word does when it is consumed: it sets destinations ("flags"),
\* asks for the help ("help"), is an error ("error": an explicit argument
\* given to a flag) or is not recognised ("extra")
WordEffect(w) ==
    IF IsLong(w)
    THEN IF Cardinality(LongCandidates(w)) # 1
         THEN [kind |-> "extra", dests |-> {}]
         ELSE LET o == CHOOSE x \in LongCandidates(w) : TRUE IN
              IF Positions(w, "=") # {} THEN [kind |-> "error", dests |-> {}]
              ELSE IF DestOfLong(o) = "help" THEN [kind |-> "help", dests |-> {}]
              ELSE [kind |-> "flags", dests |-> {DestOfLong(o)}]
    ELSE IF IsShort(w) /\ w[2] \in ShortLetters
    THEN LET rest == GroupRest(w)
             letters == {w[2]} \cup Range(rest)
         IN  IF \/ (Len(w) >= 3 /\ rest = <<>>)
                \/ ~(Range(rest) \subseteq ShortLetters)
             THEN [kind |-> "error", dests |-> {}]
             ELSE IF "h" \in letters THEN [kind |-> "help", dests |-> {}]
             ELSE [kind |-> "flags", dests |-> {DestOfShort(c) : c \in letters}]
    ELSE [kind |-> "extra", dests |-> {}]

\* the words before the first "--": the ones argparse reads as options
OptionPart(words) ==
    IF \E i \in 1..Len(words) : words[i] = <<"-", "-">>
    THEN SubSeq(words, 1, SetMin({i \in 1..Len(words) : words[i] = <<"-", "-">>}) - 1)
    ELSE words

\* consuming the words from left to right: the first help or error ends it
RECURSIVE Consume(_, _, _)
Consume(words, dests, extras) ==
    IF words = <<>>
    THEN [status |-> IF extras THEN "SystemExit(2)" ELSE "ok", dests |-> dests]
    ELSE LET e == WordEffect(Head(words)) IN
         IF e.kind = "help" THEN [status |-> "SystemExit(0)", dests |-> dests]
         ELSE IF e.kind = "error" THEN [status |-> "SystemExit(2)", dests |-> dests]
         ELSE Consume(Tail(words), dests \cup e.dests,
                      extras \/ e.kind = "extra")

\* parser.parse_args(): an ambiguous abbreviation is an error before any
\* word is consumed; words that are not recognised are an error at the end
parse_arguments(words) ==
    LET opts == OptionPart(words)
        ambiguous == \E i \in 1..Len(opts) :
                        IsLong(opts[i]) /\ Cardinality(LongCandidates(opts[i])) > 1
        r == Consume(opts, {}, Len(opts) < Len(words))
    IN  IF ambiguous
        THEN [status |-> "SystemExit(2)", hide_source |-> FALSE, mute_stream |-> FALSE]
        ELSE [status |-> r.status,
              hide_source |-> "hide_source" \in r.dests,
              mute_stream |-> "mute_stream" \in r.dests]

(***************************************************************************)
(* privateGPT.py: the inputs of a run.                                     *)
(***************************************************************************)
SupportedModelTypes == {"LlamaCpp", "GPT4All", "HuggingFace", "OpenAI"}
ModelTypes == SupportedModelTypes \cup {"llamacpp", None}

\* a str of n zeros
Zeros(n) == [i \in 1..n |-> 48]

\* TARGET_SOURCE_CHUNKS: unset, "2", "x", "1_0", "-1", "2" between a
\* vertical tab and a no-break space, the Arabic-Indic digit three, "2"
\* after U+001C, and one digit more than int() accepts
TscValues ==
    {Unset, EnvStr(<<50>>), EnvStr(<<120>>), EnvStr(<<49, 95, 48>>),
     EnvStr(<<45, 49>>), EnvStr(<<11, 50, 160>>), EnvStr(<<1635>>),
     EnvStr(<<28, 50>>), EnvStr(Zeros(IntMaxStrDigits + 1))}

\* N_GPU_LAYERS: unset, "1", "x"
NglValues == {Unset, EnvStr(<<49>>), EnvStr(<<120>>)}

\* where input() writes its prompt: to stderr when stdin and stdout are
\* terminals and the readline module is not loaded, to stdout otherwise
PromptStreams == {"stdout", "stderr"}

\* the command lines: the flags in full, short, grouped and abbreviated,
\* the help, and words argparse rejects
ArgvChoices ==
    { <<>>,
      <<OPT_HIDE_SOURCE>>,
      <<OPT_MUTE_STREAM>>,
      <<OPT_HIDE_SOURCE, OPT_MUTE_STREAM>>,
      << <<"-", "S", "M">> >>,
      << <<"-", "-", "h", "i", "d", "e">> >>,
      << <<"-", "-", "h">> >>,
      << <<"-", "h">> >>,
      << <<"-", "-", "b", "o", "g", "u", "s">> >> }

EXIT == <<"e", "x", "i", "t">>

\* the lines entered at the prompt
Lines ==
    { EXIT,
      <<"E", "x", "i", "t">>,
      <<" ", "e", "x", "i", "t">>,
      <<>> }

NoArgsParsed == [hide_source |-> FALSE, mute_stream |-> FALSE]
NoLLM == [kind |-> "unassigned", backend |-> "", callbacks |-> {},
          n_gpu_layers |-> NoneInt]
NoneLLM == [kind |-> "None", backend |-> "", callbacks |-> {},
            n_gpu_layers |-> NoneInt]
LLM(backend, cbs, ngl) ==
    [kind |-> "llm", backend |-> backend, callbacks |-> cbs,
     n_gpu_layers |-> ngl]
NoRetriever == [built |-> FALSE, k |-> 0]
NoChain == [built |-> FALSE, llm |-> NoLLM, retriever |-> NoRetriever,
            return_source_documents |-> FALSE]

QueryStart ==
    /\ env_model_type \in ModelTypes
    /\ env_tsc \in TscValues
    /\ env_ngl \in NglValues
    /\ prompt_to \in PromptStreams
    /\ argv \in ArgvChoices
    /\ args = NoArgsParsed
    /\ pcQ = "import"
    /\ target_source_chunks = 0
    /\ n_gpu_layers = 0
    /\ retriever = NoRetriever
    /\ callbacks = {}
    /\ llm = NoLLM
    /\ constructed = <<>>
    /\ qa = NoChain
    /\ inputs = <<>>
    /\ calls = <<>>
    /\ out = <<>>
    /\ err = <<>>
    /\ errorQ = "none"

\* the query script is not run
QueryOff ==
    /\ env_model_type = None
    /\ env_tsc = Unset
    /\ env_ngl = Unset
    /\ prompt_to = "stdout"
    /\ argv = <<>>
    /\ args = NoArgsParsed
    /\ pcQ = "off"
    /\ target_source_chunks = 0
    /\ n_gpu_layers = 0
    /\ retriever = NoRetriever
    /\ callbacks = {}
    /\ llm = NoLLM
    /\ constructed = <<>>
    /\ qa = NoChain
    /\ inputs = <<>>
    /\ calls = <<>>
    /\ out = <<>>
    /\ err = <<>>
    /\ errorQ = "none"

\* one thing written to stdout or stderr: what it is, the input it belongs to (its
\* position in inputs) and, for a source passage, the passage's position
Out(what, n, i) == [what |-> what, n |-> n, i |-> i]

(***************************************************************************)
(* privateGPT.py: lines 18-27, executed when the module is loaded.         *)
(***************************************************************************)
Import ==
    /\ pcQ = "import"
    /\ LET t == TargetSourceChunks(env_tsc)
           g == NGpuLayers(env_ngl)
       IN
       IF ~t.ok
       THEN \* line 26 raises
            /\ pcQ' = "failed"
            /\ errorQ' = "ValueError"
            /\ UNCHANGED <<target_source_chunks, n_gpu_layers>>
       ELSE IF ~g.ok
       THEN \* line 27 raises
            /\ target_source_chunks' = t.value
            /\ pcQ' = "failed"
            /\ errorQ' = "ValueError"
            /\ UNCHANGED n_gpu_layers
       ELSE /\ target_source_chunks' = t.value
            /\ n_gpu_layers' = g.value
            /\ pcQ' = "main"
            /\ UNCHANGED errorQ
    /\ UNCHANGED <<env_model_type, env_tsc, env_ngl, prompt_to, argv, args,
                   retriever, callbacks, llm, constructed, qa, inputs, calls,
                   out, err>>
    /\ UNCHANGED ivars

\* line 43: callbacks = [] if args.mute_stream else [StreamingStdOutCallbackHandler()]
Callbacks(a) ==
    IF a.mute_stream THEN {} ELSE {"StreamingStdOutCallbackHandler"}

\* lines 34-43
\* parse_args ends the program itself (SystemExit), at line 34, after the
\* help, which it prints to stdout, or a usage error, for which it prints
\* the usage and the error to stderr
Setup ==
    /\ pcQ = "main"
    /\ LET r == parse_arguments(argv)
           a == [hide_source |-> r.hide_source, mute_stream |-> r.mute_stream]
       IN  IF r.status = "ok"
           THEN /\ args' = a
                /\ retriever' = [built |-> TRUE, k |-> target_source_chunks]
                /\ callbacks' = Callbacks(a)
                /\ pcQ' = "match"
                /\ UNCHANGED <<out, err, errorQ>>
           ELSE /\ pcQ' = "exited"
                /\ errorQ' = r.status
                /\ IF r.status = "SystemExit(0)"
                   THEN /\ out' = Append(out, Out("help", 0, 0))
                        /\ UNCHANGED err
                   ELSE /\ err' = err \o <<Out("usage", 0, 0),
                                            Out("error", 0, 0)>>
                        /\ UNCHANGED out
                /\ UNCHANGED <<args, retriever, callbacks>>
    /\ UNCHANGED <<env_model_type, env_tsc, env_ngl, prompt_to, argv,
                   target_source_chunks, n_gpu_layers, llm, constructed, qa,
                   inputs, calls>>
    /\ UNCHANGED ivars

\* lines 45-80: the case of the match statement that model_type selects
MatchBackend_swapped(mt) ==
    IF mt = "LlamaCpp" THEN "GPT4All"
    ELSE IF mt = "GPT4All" THEN "LlamaCpp"
    ELSE IF mt \in {"HuggingFace", "OpenAI"} THEN mt
    ELSE "_default"

MatchBackend(mt) ==
    IF mt = "LlamaCpp" THEN "LlamaCpp"
    ELSE IF mt = "GPT4All" THEN "GPT4All"
    ELSE IF mt = "HuggingFace" THEN "HuggingFace"
    ELSE IF mt = "OpenAI" THEN "OpenAI"
    ELSE "_default"

\* line 54: only LlamaCpp is given n_gpu_layers
BackendGpuLayers(backend, ngl) ==
    IF backend = "LlamaCpp" THEN Some(ngl) ELSE NoneInt

\* the callbacks the constructed backend is given: lines 50, 62 and 74 pass
\* callbacks; create_HuggingFace_pipeline (lines 67, 112-126) takes none
BackendCallbacks(backend, cbs) ==
    IF backend = "HuggingFace" THEN {} ELSE cbs

\* lines 45-80.  built: whether the backend's construction succeeds.
\* LlamaCpp, GPT4All and ChatOpenAI raise out of main when it does not;
\* create_HuggingFace_pipeline prints the exception and returns None.
\* The default case prints and evaluates the name `exit` without calling
\* it, so main goes on with llm unassigned.
PrepareLLM(built) ==
    /\ pcQ = "match"
    /\ LET backend == MatchBackend(env_model_type) IN
       IF backend = "_default"
       THEN /\ out' = Append(out, Out("not supported", 0, 0))
            /\ pcQ' = "chain"
            /\ UNCHANGED <<llm, constructed, errorQ>>
       ELSE IF built
       THEN /\ llm' = LLM(backend, BackendCallbacks(backend, callbacks),
                          BackendGpuLayers(backend, n_gpu_layers))
            /\ constructed' = Append(constructed, backend)
            /\ pcQ' = "chain"
            /\ UNCHANGED <<out, errorQ>>
       ELSE IF backend = "HuggingFace"
       THEN /\ llm' = NoneLLM
            /\ out' = Append(out, Out("exception", 0, 0))
            /\ pcQ' = "chain"
            /\ UNCHANGED <<constructed, errorQ>>
       ELSE /\ pcQ' = "failed"
            /\ errorQ' = "BackendError"
            /\ UNCHANGED <<llm, constructed, out>>
    /\ UNCHANGED <<env_model_type, env_tsc, env_ngl, prompt_to, argv, args,
                   target_source_chunks, n_gpu_layers, retriever, callbacks,
                   qa, inputs, calls, err>>
    /\ UNCHANGED ivars

\* line 85: return_source_documents=not args.hide_source
ReturnSourceDocuments(a) == ~a.hide_source

\* lines 81-86: RetrievalQA.from_chain_type(llm=llm, ...).  Reading the
\* unassigned local llm is an UnboundLocalError; the chain classes validate
\* their llm field and reject None with a ValidationError.
BuildChain ==
    /\ pcQ = "chain"
    /\ IF llm.kind = "unassigned"
       THEN pcQ' = "failed" /\ errorQ' = "UnboundLocalError" /\ UNCHANGED qa
       ELSE IF llm.kind = "None"
       THEN pcQ' = "failed" /\ errorQ' = "ValidationError" /\ UNCHANGED qa
       ELSE /\ qa' = [built |-> TRUE, llm |-> llm, retriever |-> retriever,
                      return_source_documents |-> ReturnSourceDocuments(args)]
            /\ pcQ' = "prompt"
            /\ UNCHANGED errorQ
    /\ UNCHANGED <<env_model_type, env_tsc, env_ngl, prompt_to, argv, args,
                   target_source_chunks, n_gpu_layers, retriever, callbacks,
                   llm, constructed, inputs, calls, out, err>>
    /\ UNCHANGED ivars


(***************************************************************************)
(* privateGPT.py: the interactive loop, lines 88-109.                      *)
(***************************************************************************)
Lower(c) == IF c = "E" THEN "e" ELSE c

\* line 90: query == "exit"
QueryIsExit_anyCase(query) == [i \in 1..Len(query) |-> Lower(query[i])] = EXIT

QueryIsExit(query) == query = EXIT

\* line 97: [] if args.hide_source else res["source_documents"]
HideDocs_never(a) == FALSE

HideDocs(a) == a.hide_source

\* what qa(query) can do: RetrievalQA, the retriever and the backend are
\* third-party code.  It raises, with or without tokens already streamed,
\* or it returns the answer with some number of source documents; how many
\* the store returns for the retriever's k is not decided in this repository
ChainOutcomes ==
    {[raises |-> TRUE, streamed |-> b, nret |-> 0] : b \in BOOLEAN}
        \cup {[raises |-> FALSE, streamed |-> TRUE, nret |-> n] :
                 n \in 0..MaxRetrieved}

\* lines 106-109: what is printed for the source documents i..nret of the
\* n-th input
RECURSIVE SourcePrints(_, _, _)
SourcePrints(n, i, nret) ==
    IF i > nret THEN <<>>
    ELSE <<Out("source name", n, i), Out("source content", n, i)>>
         \o SourcePrints(n, i + 1, nret)

\* the tokens the streaming callback writes to stdout during qa(query)
Streamed(chain, n) ==
    IF "StreamingStdOutCallbackHandler" \in chain.llm.callbacks
    THEN <<Out("stream", n, 0)>> ELSE <<>>

\* line 89: input("\nEnter a query: ") writes the prompt of the n-th input
\* to the stream the environment makes it use
WritePrompt(n) ==
    IF prompt_to = "stdout"
    THEN out' = Append(out, Out("prompt", n, 0)) /\ UNCHANGED err
    ELSE err' = Append(err, Out("prompt", n, 0)) /\ UNCHANGED out

\* lines 89-91: input() shows the prompt and returns the line; "exit"
\* breaks, any other line goes on to line 94
Input(line) ==
    /\ pcQ = "prompt"
    /\ Len(inputs) < MaxQueries
    /\ inputs' = Append(inputs, line)
    /\ WritePrompt(Len(inputs) + 1)
    /\ pcQ' = IF QueryIsExit(line) THEN "done" ELSE "ask"
    /\ UNCHANGED <<env_model_type, env_tsc, env_ngl, prompt_to, argv, args,
                   target_source_chunks, n_gpu_layers, retriever, callbacks,
                   llm, constructed, qa, calls, errorQ>>
    /\ UNCHANGED ivars

\* lines 94-109: the line is given to the chain; an exception of the chain
\* leaves main; otherwise the result is printed and the loop goes round
Ask(outcome) ==
    /\ pcQ = "ask"
    /\ LET n == Len(inputs)
           line == inputs[n]
       IN
       /\ calls' = Append(calls, [query |-> line, n |-> n,
                                  llm |-> qa.llm.backend,
                                  k |-> qa.retriever.k,
                                  returned |-> ~outcome.raises,
                                  nret |-> outcome.nret])
       /\ IF outcome.raises
          THEN /\ pcQ' = "failed"
               /\ errorQ' = "ChainError"
               /\ out' = out \o (IF outcome.streamed THEN Streamed(qa, n)
                                 ELSE <<>>)
          ELSE IF ~HideDocs(args) /\ ~qa.return_source_documents
          THEN \* res has no "source_documents" key
               /\ pcQ' = "failed"
               /\ errorQ' = "KeyError"
               /\ out' = out \o Streamed(qa, n)
          ELSE /\ out' = out \o Streamed(qa, n)
                         \o <<Out("question header", n, 0),
                              Out("question", n, 0),
                              Out("answer header", n, 0),
                              Out("answer", n, 0)>>
                         \o (IF HideDocs(args) THEN <<>>
                             ELSE SourcePrints(n, 1, outcome.nret))
               /\ pcQ' = "prompt"
               /\ UNCHANGED errorQ
    /\ UNCHANGED <<env_model_type, env_tsc, env_ngl, prompt_to, argv, args,
                   target_source_chunks, n_gpu_layers, retriever, callbacks,
                   llm, constructed, qa, inputs, err>>
    /\ UNCHANGED ivars

\* line 89: input() raises EOFError when stdin is closed
InputEOF ==
    /\ pcQ = "prompt"
    /\ Len(inputs) < MaxQueries
    /\ WritePrompt(Len(inputs) + 1)
    /\ pcQ' = "failed"
    /\ errorQ' = "EOFError"
    /\ UNCHANGED <<env_model_type, env_tsc, env_ngl, prompt_to, argv, args,
                   target_source_chunks, n_gpu_layers, retriever, callbacks,
                   llm, constructed, qa, inputs, calls>>
    /\ UNCHANGED ivars

QueryNext ==
    \/ Import
    \/ Setup
    \/ \E built \in BOOLEAN : PrepareLLM(built)
    \/ BuildChain
    \/ \E line \in Lines : Input(line)
    \/ \E outcome \in ChainOutcomes : Ask(outcome)
    \/ InputEOF

(***************************************************************************)
(* The specifications: a run of ingest.py, a run of privateGPT.py.         *)
(***************************************************************************)
InitIngest == IngestStart /\ QueryOff
SpecIngest == InitIngest /\ [][IngestNext]_vars

InitQuery == IngestOff /\ QueryStart
SpecQuery == InitQuery /\ [][QueryNext]_vars

Init == InitIngest \/ InitQuery
Next == IngestNext \/ QueryNext
Spec == Init /\ [][Next]_vars


(***************************************************************************)
(* Vocabulary of the properties.                                           *)
(***************************************************************************)
\* e is the extension of path p: the "." and the text after the last "." of p
IsExtensionOf(e, p) ==
    /\ e # <<>>
    /\ e[1] = "."
    /\ Positions(Tail(e), ".") = {}
    /\ EndsWith(p, e)

\* p has an extension registered in LOADER_MAPPING
Supported(p) == \E i \in 1..Len(LOADER_ITEMS) : IsExtensionOf(LOADER_ITEMS[i][1], p)

\* the paths load_documents discovered
Discovered == Range(all_files)

\* the files whose load raised inside load_single_document
Raised == raised

\* the number of positions of sequence s that hold x
Count(s, x) == Cardinality({i \in 1..Len(s) : s[i] = x})

(***************************************************************************)
(* C1: every discovered path is dispatched to exactly the loader class and *)
(* arguments LOADER_MAPPING registers for the path's extension (the text   *)
(* after its last "."); a discovered path never raises the unsupported-    *)
(* extension ValueError; a path whose extension is not registered          *)
(* instantiates no loader and raises ValueError.                           *)
(***************************************************************************)
C1_DispatchByExtension ==
    /\ \A d \in dispatched :
          /\ d[1] \in Discovered
          /\ \E i \in 1..Len(LOADER_ITEMS) :
                /\ IsExtensionOf(LOADER_ITEMS[i][1], d[1])
                /\ d[2] = LOADER_ITEMS[i][2]
                /\ d[3] = LOADER_ITEMS[i][3]
          /\ \A e \in dispatched : e[1] = d[1] => e = d
    /\ \A p \in Discovered :
          /\ Supported(p)
          /\ loadCount[p] > 0 => \E d \in dispatched : d[1] = p
    /\ \A i \in 1..Len(outq) : outq[i].kind # "ValueError"
    /\ errorI # "ValueError"
    /\ \A p \in Entries(fs) : \A loaded \in LoadOutcomes :
          ~Supported(p) =>
              /\ load_single_document(p, loaded).kind = "ValueError"
              /\ load_single_document(p, loaded).loader = NoLoader
              /\ p \notin Discovered

\* a file in a dotted directory with two dots in its name was dispatched to
\* TextLoader, next to a file of an unregistered extension
C1_Witness ==
    /\ pcI = "loaded"
    /\ <<Under(<<"d", ".", "v", "/", "a", ".", "b", ".", "t", "x", "t">>),
         "TextLoader", Utf8Args>> \in dispatched
    /\ Under(<<"a", ".", "t", "x", "t", ".", "g", "z">>) \in fs

(***************************************************************************)
(* C2: no document a loader produces is dropped between loading and        *)
(* storing: every produced document is passed to the splitter and its      *)
(* chunks are in the vector store when the run is done.                    *)
(***************************************************************************)
C2_NoDocumentDropped ==
    pcI = "done" =>
        /\ produced \subseteq Range(results)
        /\ Range(texts) \subseteq store

(***************************************************************************)
(* C3: the run goes load, split, embed, add, persist: nothing is added     *)
(* before every discovered file was loaded without error and the loaded    *)
(* documents were split; persist is called once, after the add; when a     *)
(* loader raises (or returns no document) nothing is added or persisted.   *)
(***************************************************************************)
C3_FixedOrder ==
    /\ (addCalls > 0 \/ store # {}) =>
          /\ pcI \in {"added", "done"}
          /\ addCalls = 1
          /\ \A p \in Discovered : loadCount[p] > 0
          /\ Raised = {}
          /\ Len(results) = Len(all_files)
          /\ store = Range(texts)
          /\ \A c \in store : c.doc \in Range(results)
    /\ persistCalls <= 1
    /\ persistCalls = 1 => addCalls = 1 /\ pcI = "done"
    /\ pcI = "done" => persistCalls = 1
    /\ pcI \in {"split", "embedded"} => addCalls = 0
    /\ Raised # {} =>
          /\ pcI \in {"imap", "unwinding", "failed"}
          /\ addCalls = 0 /\ persistCalls = 0 /\ store = {}
    /\ pcI \in {"unwinding", "failed"} => addCalls = 0 /\ persistCalls = 0 /\ store = {}

\* a run over two files that added chunks and persisted
C3_Witness ==
    /\ pcI = "done"
    /\ Len(all_files) = 2
    /\ store # {}
    /\ persistCalls = 1

(***************************************************************************)
(* C4: whatever the number of workers and the completion order, when       *)
(* load_documents returns each discovered file was loaded exactly once,    *)
(* results holds exactly one Document per discovered file, the Documents   *)
(* are those of the files whatever the order, and the progress counter     *)
(* equals its total.                                                       *)
(***************************************************************************)
C4_EachFileOnce ==
    /\ \A p \in Entries(fs) : loadCount[p] <= 1
    /\ \A p \in Entries(fs) : loadCount[p] > 0 => p \in Discovered
    /\ pbar = Len(results)
    /\ pcI = "loaded" =>
          /\ \A p \in Discovered : loadCount[p] = 1
          /\ Len(results) = Len(all_files)
          /\ \A p \in Discovered : Count(results, Doc(p, 1)) = 1
          /\ \A i \in 1..Len(results) : results[i].source \in Discovered
          /\ pbar = Len(all_files)

\* two workers, two files, the second file's Document arrived first
C4_Witness ==
    /\ pcI = "loaded"
    /\ processes = Some(2)
    /\ Len(results) = 2
    /\ results[1].source = all_files[2]

(***************************************************************************)
(* C10: the pool is created with at least one worker process for every CPU *)
(* count the machine reports, a single CPU included.                       *)
(***************************************************************************)
C10_PoolHasAWorker ==
    (cpu_count # NoneInt /\ pcI \notin {"start", "pool"}) =>
        /\ processes # NoneInt
        /\ processes[1] >= 1
        /\ pcI # "failed" \/ Raised # {}


(***************************************************************************)
(* Vocabulary of the properties of privateGPT.py.                          *)
(***************************************************************************)
\* a command-line word gives the flag whose long form is long and whose
\* letter is c: the long form or a beginning of it, or a short word with c
GivesFlag(w, long, c) ==
    \/ Len(w) > 2 /\ IsPrefix(w, long)
    \/ Len(w) >= 2 /\ w[1] = "-" /\ w[2] # "-" /\ c \in Range(w)

\* --hide-source was given on the command line
HideSourceGiven == \E i \in 1..Len(argv) : GivesFlag(argv[i], OPT_HIDE_SOURCE, "S")

\* --mute-stream was given on the command line
MuteStreamGiven == \E i \in 1..Len(argv) : GivesFlag(argv[i], OPT_MUTE_STREAM, "M")

\* the query loop has started
InLoop == pcQ \in {"prompt", "ask", "done"} \/ inputs # <<>>

\* what was written to stdout for the n-th input, the prompt and the
\* streamed tokens left out
PrintedFor(n) ==
    SelectSeq(out, LAMBDA e : e.n = n /\ e.what \notin {"prompt", "stream"})

\* everything written for the n-th input, to stdout and to stderr
WrittenFor(n) == SelectSeq(out \o err, LAMBDA e : e.n = n)

\* the number TARGET_SOURCE_CHUNKS stands for, for the values that are
\* numbers: unset (the default), "2", "1_0", "-1", "2" between a vertical
\* tab and a no-break space, the Arabic-Indic digit three
PassageLimit ==
    (Unset :> 4) @@ (EnvStr(<<50>>) :> 2) @@ (EnvStr(<<49, 95, 48>>) :> 10)
        @@ (EnvStr(<<45, 49>>) :> 0 - 1) @@ (EnvStr(<<11, 50, 160>>) :> 2)
        @@ (EnvStr(<<1635>>) :> 3)

\* the n-th input is a query and was given to the chain, which returned
Answered(n) == n \in 1..Len(calls) /\ calls[n].returned

\* the n-th input is a query that is not yet given to the chain
Pending(n) == pcQ = "ask" /\ n = Len(inputs) /\ Len(calls) = n - 1

(***************************************************************************)
(* C5: for each of LlamaCpp, GPT4All, HuggingFace and OpenAI exactly one   *)
(* backend, the one MODEL_TYPE names, is constructed before the loop       *)
(* starts, and every query goes to that backend through the retriever      *)
(* built with k = the number TARGET_SOURCE_CHUNKS stands for (a negative   *)
(* one included), 4 when it is not set.                                    *)
(***************************************************************************)
C5_BackendByModelType ==
    /\ Len(constructed) <= 1
    /\ \A i \in 1..Len(constructed) :
          constructed[i] = env_model_type /\ env_model_type \in SupportedModelTypes
    /\ (InLoop /\ env_model_type \in SupportedModelTypes) =>
          /\ constructed = <<env_model_type>>
          /\ qa.built
          /\ qa.llm.kind = "llm"
          /\ qa.llm.backend = env_model_type
          /\ qa.retriever.built
          /\ env_tsc \in DOMAIN PassageLimit
          /\ qa.retriever.k = PassageLimit[env_tsc]
    /\ \A i \in 1..Len(calls) :
          /\ constructed = <<env_model_type>>
          /\ calls[i].llm = env_model_type
          /\ env_tsc \in DOMAIN PassageLimit
          /\ calls[i].k = PassageLimit[env_tsc]

\* two queries were forwarded to GPT4All with the default of 4 passages
C5_Witness ==
    /\ pcQ = "prompt"
    /\ env_model_type = "GPT4All"
    /\ env_tsc = Unset
    /\ Len(calls) = 2
    /\ Answered(1) /\ Answered(2)

(***************************************************************************)
(* C6: for every query other than "exit" to which the chain returns an     *)
(* answer, the question and then the answer are printed exactly once,      *)
(* followed by the source name and content of each returned source         *)
(* document if and only if --hide-source was not given; nothing is printed *)
(* for a query the chain raised on; with --hide-source the chain is built  *)
(* not to return source documents and no source passage is printed.        *)
(***************************************************************************)
C6_AnswerThenSources ==
    /\ errorQ # "KeyError"
    /\ \A n \in 1..Len(inputs) :
          IF inputs[n] = EXIT \/ Pending(n)
          THEN PrintedFor(n) = <<>>
          ELSE /\ n \in 1..Len(calls)
               /\ calls[n].query = inputs[n]
               /\ IF Answered(n)
                  THEN PrintedFor(n) =
                          <<Out("question header", n, 0), Out("question", n, 0),
                            Out("answer header", n, 0), Out("answer", n, 0)>>
                          \o (IF HideSourceGiven
                              THEN <<>>
                              ELSE SourcePrints(n, 1, calls[n].nret))
                  ELSE /\ PrintedFor(n) = <<>>
                       /\ n = Len(inputs)
                       /\ pcQ = "failed"
                       /\ errorQ = "ChainError"
    /\ qa.built =>
          (qa.return_source_documents <=>
              ~HideSourceGiven)
    /\ HideSourceGiven =>
          \A i \in 1..Len(out) :
              out[i].what \notin {"source name", "source content"}

\* without --hide-source a query was answered and a source passage printed
C6_Witness ==
    /\ pcQ = "prompt"
    /\ ~args.hide_source
    /\ Len(calls) >= 1
    /\ \E i \in 1..Len(out) : out[i] = Out("source content", 1, 1)

(***************************************************************************)
(* C7: for every supported backend the backend used for queries has the    *)
(* streaming stdout callback attached if and only if --mute-stream was not *)
(* given.                                                                  *)
(***************************************************************************)
C7_StreamIffNotMuted ==
    (qa.built /\ env_model_type \in SupportedModelTypes) =>
        ("StreamingStdOutCallbackHandler" \in qa.llm.callbacks
            <=> ~MuteStreamGiven)

(***************************************************************************)
(* C8: the chain-construction step is never reached with llm unassigned or *)
(* None: an unsupported MODEL_TYPE or a failed HuggingFace pipeline stops  *)
(* the program after its message.                                          *)
(***************************************************************************)
C8_ChainOnlyWithBackend ==
    /\ pcQ = "chain" => llm.kind = "llm"
    /\ errorQ \notin {"UnboundLocalError", "ValidationError"}

(***************************************************************************)
(* C9: the loop ends exactly when the line entered is "exit", whatever     *)
(* TARGET_SOURCE_CHUNKS is: every other line ("", "Exit", " exit"          *)
(* included) is forwarded to the chain exactly once and, the chain having  *)
(* returned, the loop prompts again; "exit" is never forwarded, and after  *)
(* it the chain is not called and nothing is printed.                      *)
(***************************************************************************)
C9_LoopEndsOnExit ==
    /\ \A i \in 1..Len(inputs) :
          inputs[i] = EXIT => (i = Len(inputs) /\ pcQ = "done")
    /\ pcQ = "done" <=> (inputs # <<>> /\ inputs[Len(inputs)] = EXIT)
    /\ \A j \in 1..Len(calls) :
          /\ calls[j].n = j
          /\ calls[j].query = inputs[j]
          /\ calls[j].query # EXIT
    /\ \A i \in 1..Len(inputs) :
          inputs[i] # EXIT => (i \in 1..Len(calls) \/ Pending(i))
    /\ Len(calls) <= Len(inputs)
    /\ pcQ = "ask" => Pending(Len(inputs)) /\ inputs[Len(inputs)] # EXIT
    /\ (inputs # <<>> /\ inputs[Len(inputs)] # EXIT /\ errorQ = "none") =>
          \/ Pending(Len(inputs))
          \/ Answered(Len(inputs)) /\ pcQ = "prompt"
    /\ \A n \in 1..Len(inputs) :
          inputs[n] = EXIT => WrittenFor(n) = <<Out("prompt", n, 0)>>
    /\ pcQ = "done" =>
          /\ prompt_to = "stdout" => out[Len(out)] = Out("prompt", Len(inputs), 0)
          /\ prompt_to = "stderr" =>
                /\ err[Len(err)] = Out("prompt", Len(inputs), 0)
                /\ \A i \in 1..Len(out) : out[i].n < Len(inputs)

\* with TARGET_SOURCE_CHUNKS=-1, " exit" was forwarded and answered, then
\* "exit" ended the loop, the prompts written to stderr
C9_Witness ==
    /\ pcQ = "done"
    /\ prompt_to = "stderr"
    /\ env_tsc = EnvStr(<<45, 49>>)
    /\ inputs = << <<" ", "e", "x", "i", "t">>, EXIT >>
    /\ Len(calls) = 1
    /\ Answered(1)

====
